---- MODULE Spec2Model ----
(***************************************************************************)
(* Model of simple_redis_cache (src/base.py): a decorator that caches the  *)
(* results of a wrapped function in Redis under                            *)
(*   "<func.__name__>:<sha256 hex of pickle((args, sorted kwargs))>"       *)
(* with an expiration of ttl seconds.                                      *)
(*                                                                         *)
(* Callers invoke wrappers that share one redis_client.  Every store       *)
(* operation (ping, get, set) either succeeds or raises, chosen by the     *)
(* environment; time advances by Tick, at which Redis drops the entries    *)
(* whose expiration has passed.  Spec is one caller against a store whose  *)
(* operations may fail, SpecLive concurrent callers against a live store,  *)
(* SpecShared one caller of several computations wrapped over one store.   *)
(*                                                                         *)
(* Python values are pairs <<type name, payload>>; exceptions likewise.    *)
(* Byte strings are sequences of 0..255.                                   *)
(***************************************************************************)
EXTENDS Integers, Sequences, FiniteSets, TLC

\* ------------------------------------------------------------------ bounds
NProcs == 2
MaxCalls == 2
MaxTime == 1

\* ttl default of simple_redis_cache
DefaultTtl == 60

Procs == 1..NProcs

\* ------------------------------------------------------------ Python values
PyInt(n) == <<"int", n>>
PyNone == <<"NoneType", 0>>
PyLambda == <<"function", 0>>
PyFalse == <<"bool", 0>>
PyTrue == <<"bool", 1>>
PyEmptyList == <<"list", 0>>

TypeError == <<"TypeError", 0>>
PicklingError == <<"PicklingError", 0>>
ConnectionError == <<"ConnectionError", 0>>

Return(v) == <<"return", v>>
Raise(e) == <<"raise", e>>

\* code points of the parameter names used as keyword arguments
Ord == [a |-> 97, b |-> 98]

\* ------------------------------------------------------------------ pickle
\* pickle.dumps can serialize ints, None, booleans and lists; a lambda raises
\* PicklingError
Picklable(v) == v[1] \in {"int", "NoneType", "bool", "list"}

\* opcodes of pickle protocol 4 for one atomic value
SaveAtom(v) ==
    IF v[1] = "int" THEN <<75, v[2]>>     \* BININT1 n
    ELSE IF v = PyTrue THEN <<136>>       \* NEWTRUE
    ELSE IF v = PyFalse THEN <<137>>      \* NEWFALSE
    ELSE IF v = PyEmptyList THEN <<93, 148>>   \* EMPTY_LIST, MEMOIZE
    ELSE <<78>>                           \* NONE

\* SHORT_BINUNICODE len bytes, MEMOIZE (names are single characters)
SaveStr(s) == <<140, 1, Ord[s], 148>>

\* closing opcode of a tuple of n <= 3 items: EMPTY_TUPLE or TUPLEn, MEMOIZE
TupleEnd(n) ==
    IF n = 0 THEN <<41>> ELSE <<132 + n, 148>>

RECURSIVE SaveAtoms(_)
SaveAtoms(s) ==
    IF s = <<>> THEN <<>> ELSE SaveAtom(Head(s)) \o SaveAtoms(Tail(s))

\* a tuple of atomic values
SaveArgs(args) == SaveAtoms(args) \o TupleEnd(Len(args))

\* one (name, value) item of kwargs.items()
SaveItem(it) == SaveStr(it[1]) \o SaveAtom(it[2]) \o TupleEnd(2)

RECURSIVE SaveItems(_)
SaveItems(s) ==
    IF s = <<>> THEN <<>> ELSE SaveItem(Head(s)) \o SaveItems(Tail(s))

SaveKwargs(kw) == SaveItems(kw) \o TupleEnd(Len(kw))

\* PROTO 4, then a FRAME header when the payload has at least 4 bytes, STOP
Framed(body) ==
    LET payload == body \o <<46>> IN
    <<128, 4>> \o
    (IF Len(payload) >= 4
        THEN <<149, Len(payload), 0, 0, 0, 0, 0, 0, 0>> ELSE <<>>)
    \o payload

\* faulty variant: the value written is the pickle of what set returns, None
DumpsNone(v) == Framed(<<78>>)

\* pickle.dumps(result)
Dumps(v) == Framed(SaveAtom(v))

\* pickle.dumps((args, sorted_kwargs))
DumpsKeyData(args, skw) ==
    Framed(SaveArgs(args) \o SaveKwargs(skw) \o TupleEnd(2))

\* faulty variant: the hit path returns the cached bytes without unpickling them
LoadsRaw(bs) == <<"bytes", Len(bs)>>

\* pickle.loads of the pickle of an atomic value
Loads(bs) ==
    LET op == bs[3] IN
    IF op = 75 THEN PyInt(bs[4])
    ELSE IF op = 136 THEN PyTrue
    ELSE IF op = 137 THEN PyFalse
    ELSE IF op = 93 THEN PyEmptyList
    ELSE PyNone

\* ------------------------------------------------------------- key derivation
\* faulty variant: the keyword arguments are serialized in insertion order
SortedNot(kw) == kw

\* sorted(kwargs.items()): insertion of one item into a sorted sequence
RECURSIVE Insert(_, _)
Insert(it, s) ==
    IF s = <<>> THEN <<it>>
    ELSE IF Ord[it[1]] <= Ord[Head(s)[1]] THEN <<it>> \o s
    ELSE <<Head(s)>> \o Insert(it, Tail(s))

RECURSIVE Sorted(_)
Sorted(kw) ==
    IF kw = <<>> THEN <<>> ELSE Insert(Head(kw), Sorted(Tail(kw)))

HexDigits ==
    <<"0", "1", "2", "3", "4", "5", "6", "7",
      "8", "9", "a", "b", "c", "d", "e", "f">>

\* hashlib.sha256(data).hexdigest(): the digest is taken as collision-free
\* (an injective image of the data), rendered in lowercase hexadecimal
RECURSIVE HexDigest(_)
HexDigest(bs) ==
    IF bs = <<>> THEN <<>>
    ELSE <<HexDigits[(Head(bs) \div 16) + 1], HexDigits[(Head(bs) % 16) + 1]>>
         \o HexDigest(Tail(bs))

\* faulty variant: the key is built from a serialization that accepts any value
ArgsPicklableAlways(args, kw) == TRUE

ArgsPicklable(args, kw) ==
    /\ \A i \in 1..Len(args) : Picklable(args[i])
    /\ \A i \in 1..Len(kw) : Picklable(kw[i][2])

\* faulty variant: the positional arguments are sorted like the keyword ones
RedisKeySortedArgs(name, args, kw) ==
    LET sargs == IF Len(args) = 2 /\ args[1][2] > args[2][2]
                    THEN <<args[2], args[1]>> ELSE args
    IN <<name, ":">> \o HexDigest(DumpsKeyData(sargs, Sorted(kw)))

\* faulty variant: the key is the digest alone, without the function name
RedisKeyNoName(name, args, kw) ==
    <<":">> \o HexDigest(DumpsKeyData(args, Sorted(kw)))

\* faulty variant: the key is the function name alone, without the digest
RedisKeyNameOnly(name, args, kw) == <<name, ":">>

\* f"{func.__name__}:{key_hash}"
RedisKey(name, args, kw) ==
    <<name, ":">> \o HexDigest(DumpsKeyData(args, Sorted(kw)))

\* ------------------------------------------------------ wrapped computations
\* the wrapped computations that are lambdas
Lambdas == {"make_callback", "lambda_one", "lambda_none"}

\* func.__name__ of each wrapped computation
Name(f) == IF f \in Lambdas THEN "<lambda>" ELSE f

\* parameter names of each wrapped computation
Params(f) == IF f = "add_numbers" THEN <<"a", "b">> ELSE <<>>

KwNames(kw) == {kw[i][1] : i \in 1..Len(kw)}
ParamNames(f) == {Params(f)[i] : i \in 1..Len(Params(f))}

\* Python binds *args then **kwargs to the parameters; a surplus, unknown,
\* duplicated or missing argument is a TypeError
Binds(f, args, kw) ==
    /\ Len(args) <= Len(Params(f))
    /\ KwNames(kw) \subseteq ParamNames(f)
    /\ \A i \in 1..Len(Params(f)) :
          (i <= Len(args)) # (Params(f)[i] \in KwNames(kw))

\* the value bound to the i-th parameter
Bound(f, args, kw, i) ==
    IF i <= Len(args) THEN args[i]
    ELSE kw[CHOOSE j \in 1..Len(kw) : kw[j][1] = Params(f)[i]][2]

\* def add_numbers(a, b): return a + b
add_numbers(x, y) ==
    IF x[1] = "int" /\ y[1] = "int" THEN Return(PyInt(x[2] + y[2]))
    ELSE Raise(TypeError)

\* func(*args, **kwargs): what the computation returns or raises.
\* make_callback is a wrapped  lambda: (lambda: ...)  whose result has no pickle;
\* lambda_one is  lambda: 1,  lambda_none is  lambda: None,  and get_one,
\* get_zero, get_false, get_empty are defs without parameters that return
\* 1, 0, False and [].
Func(f, args, kw) ==
    IF ~Binds(f, args, kw) THEN Raise(TypeError)
    ELSE IF f = "add_numbers"
        THEN add_numbers(Bound(f, args, kw, 1), Bound(f, args, kw, 2))
    ELSE IF f \in {"lambda_one", "get_one"} THEN Return(PyInt(1))
    ELSE IF f = "lambda_none" THEN Return(PyNone)
    ELSE IF f = "get_zero" THEN Return(PyInt(0))
    ELSE IF f = "get_false" THEN Return(PyFalse)
    ELSE IF f = "get_empty" THEN Return(PyEmptyList)
    ELSE Return(PyLambda)

Call(f, args, kw) == [f |-> f, args |-> args, kw |-> kw]

\* the same keyword arguments in both orders, the same positional arguments
\* in both orders, and a falsy sum
LiveCalls ==
    { Call("add_numbers", <<>>, << <<"a", PyInt(1)>>, <<"b", PyInt(2)>> >>),
      Call("add_numbers", <<>>, << <<"b", PyInt(2)>>, <<"a", PyInt(1)>> >>),
      Call("add_numbers", <<PyInt(1), PyInt(2)>>, <<>>),
      Call("add_numbers", <<PyInt(2), PyInt(1)>>, <<>>),
      Call("add_numbers", <<PyInt(0), PyInt(0)>>, <<>>) }

\* two identities with different results, a missing argument (TypeError),
\* an argument that has no pickle, a computation whose result has no pickle
Calls ==
    { Call("add_numbers", <<>>, << <<"a", PyInt(1)>>, <<"b", PyInt(2)>> >>),
      Call("add_numbers", <<PyInt(0), PyInt(0)>>, <<>>),
      Call("add_numbers", <<PyInt(1)>>, <<>>),
      Call("add_numbers", <<PyInt(1), PyLambda>>, <<>>),
      Call("make_callback", <<>>, <<>>) }

\* computations wrapped over one redis_client: two lambdas, which share the
\* name "<lambda>", a def that returns what one of them does, and defs that
\* return falsy values
SharedCalls ==
    { Call("lambda_one", <<>>, <<>>),
      Call("lambda_none", <<>>, <<>>),
      Call("get_one", <<>>, <<>>),
      Call("get_zero", <<>>, <<>>),
      Call("get_false", <<>>, <<>>),
      Call("get_empty", <<>>, <<>>) }

NoCall == Call("", <<>>, <<>>)
NoKey == <<>>

\* ------------------------------------------------------------------- state
VARIABLES
    store,        \* Redis: key -> [val: bytes, exp: time the entry expires]
    now,          \* the clock, in seconds
    ttl,          \* simple_redis_cache(ttl=...)
    raise_redis,  \* simple_redis_cache(raise_redis=...)
    callers,      \* the callers that invoke the wrapper in this run
    calls,        \* the invocations the callers of this run make
    faulty,       \* whether ping, get and set can fail in this run
    pc,           \* per caller: where its wrapper invocation stands
    call,         \* per caller: func, args, kwargs of the invocation
    redis_key,    \* per caller: the derived key
    result,       \* per caller: the computed result
    ncalls,       \* per caller: times func was called in this invocation
    ping,         \* per caller: outcome of redis_client.ping()
    get,          \* per caller: outcome of redis_client.get()
    gseen,        \* per caller: invocations finished when get was issued
    tget,         \* per caller: clock when get was issued
    log           \* finished invocations, in order of completion

locals == <<pc, call, redis_key, result, ncalls, ping, get, gseen, tget>>
config == <<ttl, raise_redis, callers, calls, faulty>>
vars == <<store, now, ttl, raise_redis, callers, calls, faulty, pc, call, redis_key,
          result, ncalls, ping, get, gseen, tget, log>>

\* the state after the decorator is applied, before any invocation
InitState ==
    /\ store = <<>>
    /\ now = 0
    /\ raise_redis \in BOOLEAN
    /\ pc = [p \in Procs |-> "idle"]
    /\ call = [p \in Procs |-> NoCall]
    /\ redis_key = [p \in Procs |-> NoKey]
    /\ result = [p \in Procs |-> PyNone]
    /\ ncalls = [p \in Procs |-> 0]
    /\ ping = [p \in Procs |-> "none"]
    /\ get = [p \in Procs |-> "none"]
    /\ gseen = [p \in Procs |-> -1]
    /\ tget = [p \in Procs |-> -1]
    /\ log = <<>>

\* one caller invoking the wrapper again and again, against a store on
\* which every ping, get and set may fail
Init ==
    /\ InitState
    /\ ttl \in {1, DefaultTtl}
    /\ callers = {1}
    /\ calls = Calls
    /\ faulty = TRUE

\* concurrent callers against a live store: ping, get and set succeed
InitLive ==
    /\ InitState
    /\ ttl \in {1, DefaultTtl}
    /\ callers = Procs
    /\ calls = LiveCalls
    /\ faulty = FALSE

\* one caller invoking the wrappers of several computations that share a
\* live store
InitShared ==
    /\ InitState
    /\ ttl \in {1, DefaultTtl}
    /\ callers = {1}
    /\ calls = SharedCalls
    /\ faulty = FALSE

\* faulty variant: a failed ping is always raised
PingReraisesAlways == TRUE

\* faulty variant: a failed ping is always suppressed
PingReraisesNever == FALSE

\* except Exception as e: if raise_redis: raise e   (after ping)
PingReraises == raise_redis

\* faulty variant: a failed get is always suppressed
GetReraisesNever == FALSE

\* except Exception as e: if raise_redis: raise e   (after get)
GetReraises == raise_redis

\* faulty variant: a failed set is always suppressed
SetReraisesNever == FALSE

\* faulty variant: a failed set is always raised
SetReraisesAlways == TRUE

\* except Exception as e: if raise_redis: raise e   (after set)
SetReraises == raise_redis

\* whether a store operation can have this outcome
Outcome(ok) == ok \/ faulty

Started == Len(log) + Cardinality({p \in Procs : pc[p] # "idle"})

\* the wrapper returns or raises: the invocation is recorded and the
\* caller's frame is dropped
Finish(p, c, k, pingSt, getSt, setSt, hit, n, ret) ==
    /\ log' = Append(log,
          [call |-> c, key |-> k,
           ping |-> pingSt, get |-> getSt, set |-> setSt,
           hit |-> hit, calls |-> n, ret |-> ret,
           gseen |-> IF getSt = "none" THEN -1
                     ELSE IF pc[p] = "get" THEN Len(log) ELSE gseen[p],
           tget |-> IF getSt = "none" THEN -1
                    ELSE IF pc[p] = "get" THEN now ELSE tget[p],
           tend |-> now])
    /\ pc' = [pc EXCEPT ![p] = "idle"]
    /\ call' = [call EXCEPT ![p] = NoCall]
    /\ redis_key' = [redis_key EXCEPT ![p] = NoKey]
    /\ result' = [result EXCEPT ![p] = PyNone]
    /\ ncalls' = [ncalls EXCEPT ![p] = 0]
    /\ ping' = [ping EXCEPT ![p] = "none"]
    /\ get' = [get EXCEPT ![p] = "none"]
    /\ gseen' = [gseen EXCEPT ![p] = -1]
    /\ tget' = [tget EXCEPT ![p] = -1]

\* a caller invokes wrapper(*args, **kwargs):
\*   try: redis_client.ping() / except: if raise_redis: raise e
\*   sorted_kwargs, key_data, key_hash, redis_key  (outside any try)
\* ping neither reads nor writes an entry and the key derivation is local,
\* so the steps before the lookup are one step
Enter(p, c, ok) ==
    /\ pc[p] = "idle"
    /\ Started < MaxCalls
    /\ Outcome(ok)
    /\ LET pingSt == IF ok THEN "ok" ELSE "fail" IN
       IF ~ok /\ PingReraises
          THEN Finish(p, c, NoKey, pingSt, "none", "none", FALSE, 0,
                      Raise(ConnectionError))
          ELSE IF ~ArgsPicklable(c.args, c.kw)
          THEN Finish(p, c, NoKey, pingSt, "none", "none", FALSE, 0,
                      Raise(PicklingError))
          ELSE /\ call' = [call EXCEPT ![p] = c]
               /\ ping' = [ping EXCEPT ![p] = pingSt]
               /\ redis_key' = [redis_key EXCEPT ![p] =
                     RedisKey(Name(c.f), c.args, c.kw)]
               /\ pc' = [pc EXCEPT ![p] = "get"]
               /\ UNCHANGED <<result, ncalls, get, gseen, tget, log>>
    /\ UNCHANGED <<store, now, config>>

\* Python None or a byte string
NoneBytes == <<"None">>
Bytes(bs) == <<"bytes", bs>>

\* redis_client.get(key) on a reachable server
RedisGet(k) ==
    IF k \in DOMAIN store THEN Bytes(store[k].val) ELSE NoneBytes

\* faulty variant: the test is on the unpickled value, not on the bytes
TruthyOfValue(c) ==
    /\ c[1] = "bytes"
    /\ Len(c[2]) > 0
    /\ Loads(c[2]) \notin {PyNone, PyInt(0), PyFalse, PyEmptyList}

\* if cached_result:
Truthy(c) == c[1] = "bytes" /\ Len(c[2]) > 0

\* faulty variant: a hit renews the expiration of the entry it read
GetRefresh(p, ok) ==
    /\ pc[p] = "get"
    /\ Outcome(ok)
    /\ LET cached_result == IF ok THEN RedisGet(redis_key[p]) ELSE NoneBytes
           getSt == IF ok THEN "ok" ELSE "fail"
       IN IF ~ok /\ GetReraises
             THEN /\ UNCHANGED store
                  /\ Finish(p, call[p], redis_key[p], ping[p], getSt, "none",
                            FALSE, ncalls[p], Raise(ConnectionError))
             ELSE IF Truthy(cached_result)
             THEN /\ store' = [store EXCEPT ![redis_key[p]].exp = now + ttl]
                  /\ Finish(p, call[p], redis_key[p], ping[p], getSt, "none",
                            TRUE, ncalls[p], Return(Loads(cached_result[2])))
             ELSE /\ get' = [get EXCEPT ![p] = getSt]
                  /\ gseen' = [gseen EXCEPT ![p] = Len(log)]
                  /\ tget' = [tget EXCEPT ![p] = now]
                  /\ pc' = [pc EXCEPT ![p] = "call"]
                  /\ UNCHANGED <<call, redis_key, result, ncalls, ping, log>>
                  /\ UNCHANGED store
    /\ UNCHANGED <<now, config>>

\* try: cached_result = redis_client.get(redis_key)
\* except: if raise_redis: raise e; cached_result = None
\* if cached_result: return pickle.loads(cached_result)
Get(p, ok) ==
    /\ pc[p] = "get"
    /\ Outcome(ok)
    /\ LET cached_result == IF ok THEN RedisGet(redis_key[p]) ELSE NoneBytes
           getSt == IF ok THEN "ok" ELSE "fail"
       IN IF ~ok /\ GetReraises
             THEN Finish(p, call[p], redis_key[p], ping[p], getSt, "none",
                         FALSE, ncalls[p], Raise(ConnectionError))
             ELSE IF Truthy(cached_result)
             THEN Finish(p, call[p], redis_key[p], ping[p], getSt, "none",
                         TRUE, ncalls[p], Return(Loads(cached_result[2])))
             ELSE /\ get' = [get EXCEPT ![p] = getSt]
                  /\ gseen' = [gseen EXCEPT ![p] = Len(log)]
                  /\ tget' = [tget EXCEPT ![p] = now]
                  /\ pc' = [pc EXCEPT ![p] = "call"]
                  /\ UNCHANGED <<call, redis_key, result, ncalls, ping, log>>
    /\ UNCHANGED <<store, now, config>>

\* faulty variant: the call of func is inside a try that swallows its error and
\* caches None
CallFuncSwallow(p) ==
    /\ pc[p] = "call"
    /\ LET r == Func(call[p].f, call[p].args, call[p].kw) IN
       result' = [result EXCEPT ![p] = IF r[1] = "raise" THEN PyNone ELSE r[2]]
    /\ ncalls' = [ncalls EXCEPT ![p] = ncalls[p] + 1]
    /\ pc' = [pc EXCEPT ![p] = "set"]
    /\ UNCHANGED <<call, redis_key, ping, get, gseen, tget, log>>
    /\ UNCHANGED <<store, now, config>>

\* faulty variant: func is called again when its first call returned
CallFuncTwice(p) ==
    /\ pc[p] = "call"
    /\ LET r == Func(call[p].f, call[p].args, call[p].kw) IN
       IF r[1] = "raise"
          THEN Finish(p, call[p], redis_key[p], ping[p], get[p], "none",
                      FALSE, ncalls[p] + 1, r)
          ELSE /\ result' = [result EXCEPT ![p] = r[2]]
               /\ ncalls' = [ncalls EXCEPT ![p] = ncalls[p] + 2]
               /\ pc' = [pc EXCEPT ![p] = "set"]
               /\ UNCHANGED <<call, redis_key, ping, get, gseen, tget, log>>
    /\ UNCHANGED <<store, now, config>>

\* result = func(*args, **kwargs): outside any try
CallFunc(p) ==
    /\ pc[p] = "call"
    /\ LET r == Func(call[p].f, call[p].args, call[p].kw) IN
       IF r[1] = "raise"
          THEN Finish(p, call[p], redis_key[p], ping[p], get[p], "none",
                      FALSE, ncalls[p] + 1, r)
          ELSE /\ result' = [result EXCEPT ![p] = r[2]]
               /\ ncalls' = [ncalls EXCEPT ![p] = ncalls[p] + 1]
               /\ pc' = [pc EXCEPT ![p] = "set"]
               /\ UNCHANGED <<call, redis_key, ping, get, gseen, tget, log>>
    /\ UNCHANGED <<store, now, config>>

\* faulty variant: set is called with ex=60 whatever ttl was given
RedisSetDefaultEx(k, value, ex) ==
    [x \in DOMAIN store \cup {k} |->
        IF x = k THEN [val |-> value, exp |-> now + DefaultTtl]
        ELSE store[x]]

\* faulty variant: set is called without ex=ttl, the entry never expires
RedisSetNoExpiry(k, value, ex) ==
    [x \in DOMAIN store \cup {k} |->
        IF x = k THEN [val |-> value, exp |-> now + MaxTime + 1]
        ELSE store[x]]

\* faulty variant: set is called with nx=True, an existing entry is kept
RedisSetNx(k, value, ex) ==
    IF k \in DOMAIN store THEN store
    ELSE [x \in DOMAIN store \cup {k} |->
            IF x = k THEN [val |-> value, exp |-> now + ex] ELSE store[x]]

\* redis_client.set(key, value, ex=ttl) on a reachable server
RedisSet(k, value, ex) ==
    [x \in DOMAIN store \cup {k} |->
        IF x = k THEN [val |-> value, exp |-> now + ex] ELSE store[x]]

\* try: redis_client.set(redis_key, pickle.dumps(result), ex=ttl)
\* except: if raise_redis: raise e
\* return result
\* pickle.dumps(result) is evaluated inside the try, before set is called
Set(p, ok) ==
    /\ pc[p] = "set"
    /\ Outcome(ok)
    /\ IF ~Picklable(result[p])
          THEN /\ ok
               /\ UNCHANGED store
               /\ Finish(p, call[p], redis_key[p], ping[p], get[p], "none",
                         FALSE, ncalls[p],
                         IF SetReraises THEN Raise(PicklingError)
                         ELSE Return(result[p]))
          ELSE IF ok
          THEN /\ store' = RedisSet(redis_key[p], Dumps(result[p]), ttl)
               /\ Finish(p, call[p], redis_key[p], ping[p], get[p], "ok",
                         FALSE, ncalls[p], Return(result[p]))
          ELSE /\ UNCHANGED store
               /\ Finish(p, call[p], redis_key[p], ping[p], get[p], "fail",
                         FALSE, ncalls[p],
                         IF SetReraises THEN Raise(ConnectionError)
                         ELSE Return(result[p]))
    /\ UNCHANGED <<now, config>>

\* a second passes; Redis drops the entries whose expiration has passed
Tick ==
    /\ now < MaxTime
    /\ now' = now + 1
    /\ store' = [k \in {x \in DOMAIN store : store[x].exp > now + 1}
                    |-> store[k]]
    /\ UNCHANGED <<config, locals, log>>

Next ==
    \/ \E p \in callers, c \in calls, ok \in BOOLEAN : Enter(p, c, ok)
    \/ \E p \in Procs, ok \in BOOLEAN : Get(p, ok)
    \/ \E p \in Procs : CallFunc(p)
    \/ \E p \in Procs, ok \in BOOLEAN : Set(p, ok)
    \/ Tick

Spec == Init /\ [][Next]_vars

SpecLive == InitLive /\ [][Next]_vars

SpecShared == InitShared /\ [][Next]_vars

TypeOK ==
    /\ now \in 0..MaxTime
    /\ Len(log) <= MaxCalls
    /\ \A p \in Procs : pc[p] \in {"idle", "get", "call", "set"}

\* --------------------------------------------------------------- properties
Idx == 1..Len(log)

\* what the wrapped computation returns or raises on an invocation's arguments
Computed(c) == Func(c.f, c.args, c.kw)

\* an argument of the invocation is a lambda, which has no pickle
HasLambda(c) ==
    \/ \E n \in 1..Len(c.args) : c.args[n] = PyLambda
    \/ \E n \in 1..Len(c.kw) : c.kw[n][2] = PyLambda

\* the keyword arguments as a mapping, whatever their insertion order
KwMapping(c) == {c.kw[n] : n \in 1..Len(c.kw)}

\* the same computation on the same positional sequence and keyword mapping
SameIdentity(c, d) ==
    /\ c.f = d.f
    /\ c.args = d.args
    /\ KwMapping(c) = KwMapping(d)

\* invocation i went through ping, get and set and all three succeeded
Populated(i) ==
    /\ log[i].ping = "ok"
    /\ log[i].get = "ok"
    /\ log[i].set = "ok"

\* invocation j issued its get after invocation i had finished
LooksUpAfter(j, i) == log[j].gseen >= i

\* no invocation other than i and j has written the entry at i's key
OnlyWriters(i, j) ==
    \A k \in Idx \ {i, j} : ~(log[k].key = log[i].key /\ log[k].set = "ok")

\* C1: of two sequential invocations of the same computation with identical
\* arguments against a live store, the second looking up before the entry
\* the first one wrote has expired, the second is a hit: the computation is
\* invoked once in total and the second returns what the first returned.
C1_HitSuppressesRecomputation ==
    \A i, j \in Idx :
        ( /\ i < j
          /\ log[i].call = log[j].call
          /\ Populated(i)
          /\ log[j].ping = "ok"
          /\ log[j].get = "ok"
          /\ LooksUpAfter(j, i)
          /\ log[j].tget < log[i].tend + ttl )
        => /\ log[j].hit
           /\ log[j].set = "none"
           /\ log[i].calls + log[j].calls = 1
           /\ log[j].ret = log[i].ret

C1_Witness ==
    \E i, j \in Idx :
        /\ i < j
        /\ log[i].call = log[j].call
        /\ Populated(i)
        /\ LooksUpAfter(j, i)
        /\ log[j].tget < log[i].tend + ttl
        /\ log[j].hit
        /\ log[j].ret = Return(PyInt(3))

\* C2: with raise_redis false, whatever store operations failed and whatever
\* entries expired, no invocation surfaces a store error, and every
\* invocation whose arguments have a pickle ends as the computation does on
\* its own arguments: it returns the value the computation returns.
C2_CorrectValueDespiteFailures ==
    ~raise_redis =>
        \A i \in Idx :
            /\ log[i].ret # Raise(ConnectionError)
            /\ ~HasLambda(log[i].call) => log[i].ret = Computed(log[i].call)

C2_Witness ==
    /\ ~raise_redis
    /\ \E i, j \in Idx :
          /\ i < j
          /\ log[i].get = "fail"
          /\ log[i].set = "ok"
          /\ log[j].ping = "fail"
          /\ log[j].hit
          /\ log[j].ret = Return(PyInt(0))

\* every ping, get and set issued so far has failed
AllStoreOpsFailed ==
    /\ \A i \in Idx :
          /\ log[i].ping = "fail"
          /\ log[i].get # "ok"
          /\ log[i].set # "ok"
    /\ \A p \in Procs : ping[p] # "ok" /\ get[p] # "ok"

\* C3: with raise_redis false and a store on which every ping, get and set
\* fails, nothing is stored, nothing is served from the cache, no error of
\* the store is surfaced, and every invocation (its arguments having a
\* pickle) invokes the computation once and ends as the computation does.
C3_StoreFailureDegrades ==
    (~raise_redis /\ AllStoreOpsFailed) =>
        /\ store = <<>>
        /\ \A i \in Idx :
              /\ log[i].ret # Raise(ConnectionError)
              /\ ~log[i].hit
              /\ ~HasLambda(log[i].call) =>
                    /\ log[i].calls = 1
                    /\ log[i].ret = Computed(log[i].call)

C3_Witness ==
    /\ ~raise_redis
    /\ AllStoreOpsFailed
    /\ Len(log) = 2
    /\ log[1].call = log[2].call
    /\ log[1].set = "fail"
    /\ log[2].set = "fail"
    /\ log[2].calls = 1
    /\ log[2].ret = Return(PyInt(3))

\* C4: with raise_redis true, an invocation whose ping fails raises the
\* store's error without invoking the computation and without issuing a get
\* or a set.
C4_PingFailurePropagates ==
    \A i \in Idx :
        (raise_redis /\ log[i].ping = "fail") =>
            /\ log[i].ret = Raise(ConnectionError)
            /\ log[i].calls = 0
            /\ log[i].get = "none"
            /\ log[i].set = "none"

C4_Witness ==
    /\ raise_redis
    /\ \E i \in Idx :
          /\ log[i].ping = "fail"
          /\ log[i].ret = Raise(ConnectionError)

\* invocation i computed a result that has no pickle
UnpicklableResult(i) ==
    /\ log[i].calls = 1
    /\ Computed(log[i].call) = Return(PyLambda)

\* C5: an invocation whose computed result cannot be serialized in the
\* populate step raises PicklingError, whatever raise_redis is.
C5_ResultSerializationErrorPropagates ==
    \A i \in Idx :
        UnpicklableResult(i) => log[i].ret = Raise(PicklingError)

\* C6: after an invocation has populated an entry, an invocation with
\* identical arguments that looks up once that entry has expired (nobody else
\* having written the key) misses, invokes the computation again (twice in
\* total), writes the entry again and returns what the first one returned.
C6_ExpirationCausesRecomputation ==
    \A i, j \in Idx :
        ( /\ i < j
          /\ log[i].call = log[j].call
          /\ Populated(i)
          /\ log[j].get = "ok"
          /\ LooksUpAfter(j, i)
          /\ log[j].tget >= log[i].tend + ttl
          /\ OnlyWriters(i, j) )
        => /\ ~log[j].hit
           /\ log[i].calls + log[j].calls = 2
           /\ log[j].set = "ok"
           /\ log[j].ret = log[i].ret
           /\ (j = Len(log) /\ now = log[j].tend) =>
                 /\ log[j].key \in DOMAIN store
                 /\ store[log[j].key].exp = now + ttl

C6_Witness ==
    \E i, j \in Idx :
        /\ i < j
        /\ log[i].call = log[j].call
        /\ Populated(i)
        /\ LooksUpAfter(j, i)
        /\ log[j].tget >= log[i].tend + ttl
        /\ log[j].calls = 1
        /\ log[j].set = "ok"
        /\ log[j].key \in DOMAIN store

\* C7: two invocations that differ only in the insertion order of their
\* keyword arguments derive the same key, so the entry one of them wrote is
\* served as a hit to a later lookup of the other made before it expires.
C7_KeywordOrderInvariance ==
    \A i, j \in Idx :
        SameIdentity(log[i].call, log[j].call) =>
            /\ (log[i].key # NoKey /\ log[j].key # NoKey) =>
                  log[i].key = log[j].key
            /\ ( /\ i < j
                 /\ Populated(i)
                 /\ log[j].get = "ok"
                 /\ LooksUpAfter(j, i)
                 /\ log[j].tget < log[i].tend + ttl )
               => /\ log[j].hit
                  /\ log[j].calls = 0
                  /\ log[j].ret = log[i].ret

C7_Witness ==
    \E i, j \in Idx :
        /\ i < j
        /\ SameIdentity(log[i].call, log[j].call)
        /\ log[i].call.kw # log[j].call.kw
        /\ log[i].key = log[j].key
        /\ Populated(i)
        /\ log[j].hit

\* invocation i invoked the computation and the computation raised
ComputationRaised(i) ==
    /\ log[i].calls > 0
    /\ Computed(log[i].call)[1] = "raise"

\* C8: when the computation raises on the miss path, the invocation raises
\* that error whatever raise_redis is, after one call of the computation and
\* without a set; no entry exists at its key, and a later invocation with
\* the same arguments that gets past its lookup misses and invokes the
\* computation again.
C8_ComputationErrorsPropagate ==
    \A i \in Idx :
        ComputationRaised(i) =>
            /\ log[i].ret = Computed(log[i].call)
            /\ log[i].calls = 1
            /\ log[i].set = "none"
            /\ log[i].key \notin DOMAIN store
            /\ \A j \in Idx :
                  ( /\ i < j
                    /\ log[j].call = log[i].call
                    /\ log[j].get # "none"
                    /\ log[j].ret # Raise(ConnectionError) )
                  => /\ ~log[j].hit
                     /\ log[j].calls = 1

C8_Witness ==
    \E i, j \in Idx :
        /\ i < j
        /\ log[j].call = log[i].call
        /\ ComputationRaised(i)
        /\ log[i].get = "ok"
        /\ log[i].ret = Raise(TypeError)
        /\ LooksUpAfter(j, i)
        /\ log[j].get = "ok"
        /\ log[j].calls = 1

\* C9: an invocation that reaches key derivation (its ping succeeded, or
\* failed with raise_redis false) with an argument that has no pickle raises
\* PicklingError whatever raise_redis is, without invoking the computation
\* and without issuing a get or a set.
C9_KeyDerivationFailurePropagates ==
    \A i \in Idx :
        ( /\ HasLambda(log[i].call)
          /\ ~(raise_redis /\ log[i].ping = "fail") )
        => /\ log[i].ret = Raise(PicklingError)
           /\ log[i].calls = 0
           /\ log[i].get = "none"
           /\ log[i].set = "none"

C9_Witness ==
    \E i \in Idx :
        /\ HasLambda(log[i].call)
        /\ log[i].ping = "fail"
        /\ log[i].ret = Raise(PicklingError)

\* invocations i and j of one key both looked up before either wrote, and
\* nobody else has written the key
Race(i, j) ==
    /\ i < j
    /\ log[i].key # NoKey
    /\ log[i].key = log[j].key
    /\ log[i].get = "ok"
    /\ log[j].get = "ok"
    /\ log[j].gseen < i
    /\ OnlyWriters(i, j)

\* C10: two concurrent invocations of one key that both look up before
\* either writes both miss, both invoke the computation (two calls in total)
\* and both issue a set; the entry at the key is then the one written by the
\* set executed last.
C10_NoSingleFlight ==
    \A i, j \in Idx :
        Race(i, j) =>
            /\ ~log[i].hit
            /\ ~log[j].hit
            /\ log[i].calls = 1
            /\ log[j].calls = 1
            /\ log[i].set = "ok"
            /\ log[j].set = "ok"
            /\ now < log[j].tend + ttl =>
                  /\ log[j].key \in DOMAIN store
                  /\ store[log[j].key] =
                        [val |-> Dumps(log[j].ret[2]),
                         exp |-> log[j].tend + ttl]

C10_Witness ==
    \E i, j \in Idx :
        /\ Race(i, j)
        /\ log[i].tend < log[j].tend
        /\ log[i].tend + ttl > now
        /\ log[j].key \in DOMAIN store

\* invocations i and j overlapped: the later finisher looked up before the
\* earlier one finished
Overlap(i, j) == i < j /\ log[j].gseen >= 0 /\ log[j].gseen < i

\* C11: in every interleaving of concurrent invocations against a live
\* store, with equal or different arguments, each invocation invokes the
\* computation at most once and returns the computation's value for its own
\* arguments, and every entry of the store was written by an invocation and
\* is the pickle of the computation's result for each invocation that
\* derived its key.
C11_SafeForConcurrentInvocation ==
    /\ \A p \in Procs : ncalls[p] <= 1
    /\ \A i \in Idx :
          /\ log[i].calls <= 1
          /\ log[i].ret = Computed(log[i].call)
    /\ \A k \in DOMAIN store :
          /\ \E i \in Idx : log[i].key = k /\ log[i].set = "ok"
          /\ \A i \in Idx :
                log[i].key = k =>
                    store[k].val = Dumps(Computed(log[i].call)[2])
          /\ \A p \in Procs :
                redis_key[p] = k =>
                    store[k].val = Dumps(Computed(call[p])[2])

C11_Witness ==
    \E i, j \in Idx :
        /\ Overlap(i, j)
        /\ log[i].call # log[j].call
        /\ log[i].key \in DOMAIN store
        /\ log[j].key \in DOMAIN store

\* the same computation and keyword mapping on different positional sequences
PositionalDiffer(c, d) ==
    /\ c.f = d.f
    /\ KwMapping(c) = KwMapping(d)
    /\ c.args # d.args

\* no invocation of j's own identity, other than j, has written an entry
NoOwnWriter(j) ==
    \A k \in Idx \ {j} :
        log[k].set = "ok" => ~SameIdentity(log[k].call, log[j].call)

\* C12: two invocations of the same computation whose positional sequences
\* differ (the keyword arguments being the same) derive different keys, and
\* the entry one of them wrote is not served to the other: while no
\* invocation of its own identity has written, the other one misses and
\* invokes the computation.
C12_PositionalOrderSensitivity ==
    \A i, j \in Idx :
        PositionalDiffer(log[i].call, log[j].call) =>
            /\ (log[i].key # NoKey /\ log[j].key # NoKey) =>
                  log[i].key # log[j].key
            /\ (log[i].set = "ok" /\ log[j].get = "ok" /\ NoOwnWriter(j)) =>
                  /\ ~log[j].hit
                  /\ log[j].calls = 1

C12_Witness ==
    \E i, j \in Idx :
        /\ i < j
        /\ log[i].call.args = <<PyInt(1), PyInt(2)>>
        /\ log[j].call.args = <<PyInt(2), PyInt(1)>>
        /\ Populated(i)
        /\ LooksUpAfter(j, i)
        /\ log[j].tget < log[i].tend + ttl
        /\ ~log[j].hit
        /\ log[j].calls = 1

\* the step finishes an invocation, whose record is the last one of log'
Finishes == Len(log') = Len(log) + 1

\* C13: a step in which the populate set fails leaves the store as it was;
\* the computation has been invoked exactly once in that invocation, which
\* returns the computed result when raise_redis is false and raises the
\* store error in its place when raise_redis is true.
C13_PopulateFailurePolicy ==
    [][(Finishes /\ log'[Len(log')].set = "fail") =>
          LET r == log'[Len(log')] IN
            /\ store' = store
            /\ r.calls = 1
            /\ r.get # "none"
            /\ ~r.hit
            /\ r.ret = IF raise_redis THEN Raise(ConnectionError)
                       ELSE Computed(r.call)]_vars

C13_Witness ==
    \E i, j \in Idx :
        /\ i < j
        /\ raise_redis
        /\ log[i].set = "ok"
        /\ log[j].set = "fail"
        /\ log[j].calls = 1
        /\ log[j].ret = Raise(ConnectionError)
        /\ log[i].key \in DOMAIN store

\* C14: an invocation whose get fails raises the store error, without
\* invoking the computation and without a set, when raise_redis is true;
\* when raise_redis is false it goes on as on an absent entry: it is not a
\* hit, the computation is invoked once, the set is attempted whenever the
\* result has a pickle, a successful set writes the entry with ex=ttl, and
\* the invocation ends as the computation does.
C14_LookupFailurePolicy ==
    [][/\ \A p \in Procs : get'[p] = "fail" => ~raise_redis
       /\ (Finishes /\ log'[Len(log')].get = "fail") =>
             LET r == log'[Len(log')] IN
               IF raise_redis
                  THEN /\ r.ret = Raise(ConnectionError)
                       /\ r.calls = 0
                       /\ r.set = "none"
                       /\ store' = store
                  ELSE /\ ~r.hit
                       /\ r.calls = 1
                       /\ r.ret = Computed(r.call)
                       /\ (/\ Computed(r.call)[1] = "return"
                           /\ Picklable(Computed(r.call)[2])) =>
                              r.set # "none"
                       /\ r.set = "ok" =>
                             /\ r.key \in DOMAIN store'
                             /\ store'[r.key].val = Dumps(Computed(r.call)[2])
                             /\ store'[r.key].exp = now + ttl
                       /\ r.set # "ok" => store' = store]_vars

C14_Witness ==
    \E i \in Idx :
        /\ ~raise_redis
        /\ log[i].get = "fail"
        /\ log[i].calls = 1
        /\ log[i].set = "ok"
        /\ log[i].ret = Computed(log[i].call)
        /\ log[i].key \in DOMAIN store
        /\ store[log[i].key].exp = log[i].tend + ttl

\* caller p leaves the lookup in this step, its ping having failed
LooksUpUnprobed(p) ==
    /\ pc[p] = "get"
    /\ pc'[p] # "get"
    /\ ping[p] = "fail"

\* C15: with raise_redis false an invocation whose ping failed still looks
\* up (unless its key cannot be derived). A get that succeeds on a present
\* entry returns the unpickled entry without invoking the computation and
\* without a set; a get that succeeds on an absent entry, or fails, leads to
\* one call of the computation and, when its result has a pickle, to an
\* attempt of the set.
C15_FailedProbeDoesNotBypassCache ==
    [][~raise_redis =>
        /\ \A p \in Procs : LooksUpUnprobed(p) =>
              LET present == redis_key[p] \in DOMAIN store IN
                IF pc'[p] = "call"
                   THEN get'[p] = "ok" => ~present
                   ELSE /\ Finishes
                        /\ log'[Len(log')].hit
                        /\ present
                        /\ log'[Len(log')].get = "ok"
                        /\ log'[Len(log')].calls = 0
                        /\ log'[Len(log')].set = "none"
                        /\ log'[Len(log')].ret =
                              Return(Loads(store[redis_key[p]].val))
                        /\ store' = store
        /\ (Finishes /\ log'[Len(log')].ping = "fail") =>
              LET r == log'[Len(log')] IN
                /\ ~HasLambda(r.call) => r.get # "none"
                /\ (r.get # "none" /\ ~r.hit) =>
                      /\ r.calls = 1
                      /\ (/\ Computed(r.call)[1] = "return"
                          /\ Picklable(Computed(r.call)[2])) =>
                             r.set # "none"]_vars

C15_Witness ==
    \E i, j \in Idx :
        /\ ~raise_redis
        /\ i < j
        /\ log[i].set = "ok"
        /\ log[j].ping = "fail"
        /\ log[j].get = "ok"
        /\ log[j].hit
        /\ log[j].calls = 0
        /\ log[j].ret = log[i].ret

\* the steps a finished invocation took are a prefix of ping, get, call, set
RecordInOrder(r) ==
    /\ r.ping # "none"
    /\ r.calls <= 1
    /\ r.calls = 1 => (r.get # "none" /\ ~r.hit)
    /\ r.set # "none" => (r.calls = 1 /\ Computed(r.call)[1] = "return")
    /\ r.hit => (r.get = "ok" /\ r.calls = 0 /\ r.set = "none")

\* the steps an invocation in flight has taken match its position
CallerInOrder(p) ==
    /\ pc[p] = "idle" => (ping[p] = "none" /\ get[p] = "none" /\ ncalls[p] = 0)
    /\ pc[p] = "get" => (ping[p] # "none" /\ get[p] = "none" /\ ncalls[p] = 0)
    /\ pc[p] = "call" => (ping[p] # "none" /\ get[p] # "none" /\ ncalls[p] = 0)
    /\ pc[p] = "set" => (ping[p] # "none" /\ get[p] # "none" /\ ncalls[p] = 1)

\* the position of caller p moves forward by one step or to the end
MovesForward(p) ==
    \/ pc'[p] = pc[p]
    \/ pc'[p] = "idle"
    \/ <<pc[p], pc'[p]>> \in
          {<<"idle", "get">>, <<"get", "call">>, <<"call", "set">>}

\* C16: every invocation issues at most one ping, then at most one get, then
\* at most one call of the computation, then at most one set, in that order
\* and without retries; the computation is called only after a get that was
\* not a hit, and the store is written only by an invocation whose
\* computation has returned, never on the hit path.
C16_StepOrder ==
    [][/\ \A p \in Procs : MovesForward(p) /\ CallerInOrder(p)'
       /\ \A i \in 1..Len(log') : RecordInOrder(log'[i])
       /\ \A p \in Procs : ncalls'[p] # ncalls[p] =>
             (pc[p] = "call" /\ get[p] # "none") \/ ncalls'[p] = 0
       /\ (now' = now /\ store' # store) =>
             /\ Finishes
             /\ log'[Len(log')].set = "ok"
             /\ ~log'[Len(log')].hit
             /\ \E p \in Procs : pc[p] = "set" /\ pc'[p] = "idle"]_vars

C16_Witness ==
    \E i, j \in Idx :
        /\ log[i].ping = "ok" /\ log[i].get = "ok"
        /\ log[i].calls = 1 /\ log[i].set = "ok"
        /\ log[j].ping = "ok" /\ log[j].hit
        /\ log[j].calls = 0 /\ log[j].set = "none"

\* the entries of s other than the one at key k are those of t, unchanged
SameElsewhere(s, t, k) ==
    /\ DOMAIN s \ {k} = DOMAIN t \ {k}
    /\ \A x \in DOMAIN s \ {k} : s[x] = t[x]

\* the last invocation of the log that wrote the entry at key k
LastWriter(l, k) ==
    LET W == {i \in 1..Len(l) : l[i].key = k /\ l[i].set = "ok"}
    IN IF W = {} THEN 0 ELSE CHOOSE i \in W : \A x \in W : x <= i

\* C17: a step of an invocation changes the store only by the set of a miss
\* path, at the key of that invocation and with ex=ttl; it deletes no entry
\* and changes no entry at another key, and a hit leaves the store as it is.
\* Entries disappear only when time passes, and only when their expiration
\* has come: an entry expires ttl after the set that wrote it, whatever hits
\* occurred in between.
C17_StoreFrame ==
    [][/\ now' = now =>
            /\ DOMAIN store \subseteq DOMAIN store'
            /\ store' # store =>
                  \E p \in Procs :
                      /\ pc[p] = "set"
                      /\ Finishes
                      /\ log'[Len(log')].set = "ok"
                      /\ log'[Len(log')].key = redis_key[p]
                      /\ ~log'[Len(log')].hit
                      /\ SameElsewhere(store', store, redis_key[p])
                      /\ store'[redis_key[p]].exp = now + ttl
            /\ (Finishes /\ log'[Len(log')].hit) => store' = store
       /\ now' # now =>
            /\ DOMAIN store' \subseteq DOMAIN store
            /\ \A k \in DOMAIN store :
                  IF store[k].exp > now' THEN k \in DOMAIN store'
                                              /\ store'[k] = store[k]
                  ELSE k \notin DOMAIN store'
       /\ \A k \in DOMAIN store' :
            /\ LastWriter(log', k) # 0
            /\ store'[k].exp = log'[LastWriter(log', k)].tend + ttl]_vars

C17_Witness ==
    \E i, j \in Idx :
        /\ i < j
        /\ log[i].set = "ok"
        /\ log[j].hit
        /\ log[j].key = log[i].key
        /\ log[j].tget > log[i].tend
        /\ log[i].key \in DOMAIN store
        /\ store[log[i].key].exp = log[i].tend + ttl

\* the key of call c: its function's name, a colon, and the digest of the
\* pickle of the positional arguments and the key-sorted keyword arguments
KeyOf(c) ==
    <<Name(c.f), ":">> \o HexDigest(DumpsKeyData(c.args, Sorted(c.kw)))

\* C18: when an invocation on the miss path against a live store returns,
\* the store holds at the key made of the computation's name, a colon and
\* the digest of its arguments an entry that unpickles to the returned
\* result and expires ttl after the set, ttl being the value given at
\* construction (60 by default); this holds of every entry in the store
\* with respect to the invocation that last wrote it.
C18_PopulatePostcondition ==
    [][/\ (Finishes /\ log'[Len(log')].set = "ok") =>
             LET r == log'[Len(log')] IN
               /\ r.ret = Computed(r.call)
               /\ r.ret[1] = "return"
               /\ r.key = KeyOf(r.call)
               /\ r.key \in DOMAIN store'
               /\ Loads(store'[r.key].val) = r.ret[2]
               /\ store'[r.key].exp = now + ttl
       /\ \A k \in DOMAIN store' :
             LET i == LastWriter(log', k) IN
               /\ i # 0
               /\ k = KeyOf(log'[i].call)
               /\ Loads(store'[k].val) = log'[i].ret[2]
               /\ store'[k].exp = log'[i].tend + ttl
               /\ store'[k].exp > now']_vars

C18_Witness ==
    \E i \in Idx :
        /\ ttl = DefaultTtl
        /\ log[i].set = "ok"
        /\ log[i].call.kw # <<>>
        /\ log[i].key \in DOMAIN store
        /\ Loads(store[log[i].key].val) = PyInt(3)
        /\ log[i].ret = Return(PyInt(3))
        /\ store[log[i].key].exp = log[i].tend + 60
        /\ now > log[i].tend

\* two different computations called with equal arguments
OtherComputation(c, d) ==
    /\ c.f # d.f
    /\ c.args = d.args
    /\ KwMapping(c) = KwMapping(d)

\* C19: computations wrapped over one store. When the names of two of them
\* differ their keys differ, and a hit is only ever served from an entry
\* whose last writer was an invocation of a computation of the same name.
\* When their names are equal, an invocation of one that looks up, with
\* equal arguments, after an invocation of the other has populated its
\* entry and before that entry expires is a hit: it returns what the other
\* computation returned and does not invoke its own.
C19_NameScoping ==
    [][/\ \A i, j \in 1..Len(log') :
             Name(log'[i].call.f) # Name(log'[j].call.f) =>
                 log'[i].key # log'[j].key
       /\ (Finishes /\ log'[Len(log')].hit) =>
             LET r == log'[Len(log')]
                 w == LastWriter(log, r.key)
             IN /\ w # 0
                /\ Name(log[w].call.f) = Name(r.call.f)
                /\ r.ret = log[w].ret
       /\ \A i, j \in 1..Len(log') :
             ( /\ i < j
               /\ OtherComputation(log'[i].call, log'[j].call)
               /\ Name(log'[i].call.f) = Name(log'[j].call.f)
               /\ log'[i].set = "ok"
               /\ \A k \in (i+1)..(j-1) : log'[k].set # "ok"
               /\ log'[j].gseen >= i
               /\ log'[j].tget < log'[i].tend + ttl )
             => /\ log'[j].hit
                /\ log'[j].calls = 0
                /\ log'[j].set = "none"
                /\ log'[j].ret = log'[i].ret]_vars

C19_Witness ==
    \E i, j \in Idx :
        /\ i < j
        /\ log[i].call.f = "lambda_none"
        /\ log[j].call.f = "lambda_one"
        /\ log[i].set = "ok"
        /\ log[j].hit
        /\ log[j].calls = 0
        /\ log[j].ret = Return(PyNone)
        /\ Computed(log[j].call) = Return(PyInt(1))

\* None, 0, False and the empty list are false in a Python condition
Falsy(v) == v \in {PyNone, PyInt(0), PyFalse, PyEmptyList}

\* C20: a computation that returns a falsy value populates on the miss an
\* entry that is present and not empty, the pickle of that value; a second
\* invocation with identical arguments that looks up after the first has
\* populated and before the entry expires is a hit, returns an equal value
\* and does not invoke the computation.
C20_FalsyResultsAreCached ==
    [][/\ (/\ Finishes
           /\ log'[Len(log')].set = "ok"
           /\ Falsy(log'[Len(log')].ret[2])) =>
             LET r == log'[Len(log')] IN
               /\ r.key \in DOMAIN store'
               /\ Len(store'[r.key].val) > 0
               /\ store'[r.key].val = Dumps(r.ret[2])
               /\ Loads(store'[r.key].val) = r.ret[2]
       /\ \A i, j \in 1..Len(log') :
             ( /\ i < j
               /\ SameIdentity(log'[i].call, log'[j].call)
               /\ log'[i].set = "ok"
               /\ Falsy(log'[i].ret[2])
               /\ \A k \in (i+1)..(j-1) :
                     ~(log'[k].set = "ok" /\ log'[k].key = log'[i].key)
               /\ log'[j].gseen >= i
               /\ log'[j].tget < log'[i].tend + ttl )
             => /\ log'[j].hit
                /\ log'[j].calls = 0
                /\ log'[j].ret = log'[i].ret]_vars

C20_Witness ==
    \E i, j \in Idx :
        /\ i < j
        /\ log[i].call = log[j].call
        /\ log[i].call.f \in {"get_false", "get_empty", "get_zero"}
        /\ log[i].set = "ok"
        /\ Falsy(log[i].ret[2])
        /\ log[j].hit
        /\ log[j].calls = 0
        /\ log[j].ret = Computed(log[j].call)

====
